---- MODULE Spec2Model ----
(***************************************************************************)
(* Model of the usePoseDetection hook (src/src/hooks/use-pose-detection.ts) *)
(* A hook instance owns four refs and one published state; every run of    *)
(* its effect opens a session (a closure with `running` and                *)
(* `poseLandmarker`), acquires the detector over three awaits and then     *)
(* drives a requestAnimationFrame loop.                                    *)
(*                                                                         *)
(* Numbers.  Coordinates are fixed-point integers in units of 1/Unit with  *)
(* Unit a power of AlphaDen and the smoothing factor is alpha/AlphaDen,   *)
(* so prev + (value - prev) * smoothing is computed exactly for as many    *)
(* frames as the model processes.  FPS values are exact fractions.         *)
(* IEEE rounding of the doubles is not modelled.                           *)
(***************************************************************************)
EXTENDS Integers, Sequences, FiniteSets, TLC

\* ---------------------------------------------------------------- bounds
MaxSessions == 2
MaxTime == 60
\* the clock of the specification that fills the FPS window
MaxFpsTime == 520

\* ------------------------------------------------------ program constants
AlphaDen == 20
DefaultSmoothing == 7
MinFrameMs == 16
FpsWindowSize == 20
MsPerSecond == 1000
VisScale == 100

RECURSIVE Pow(_, _)
Pow(b, e) == IF e = 0 THEN 1 ELSE b * Pow(b, e - 1)

\* the clock admits at most MaxTime \div MinFrameMs processed frames
Unit == Pow(AlphaDen, MaxTime \div MinFrameMs)

\* the values of the `smoothing` option the model tries: 0.35 (default) and 1
Alphas == {DefaultSmoothing, AlphaDen}

\* milliseconds between two animation frames
Dts == {5}

Sessions == 1..MaxSessions

\* ------------------------------------------------------- optional values
None == << >>
Some(v) == << v >>

\* ------------------------------------------------------------- fractions
RECURSIVE Gcd(_, _)
Gcd(a, b) == IF b = 0 THEN a ELSE Gcd(b, a % b)

Frac(n, d) == LET g == Gcd(n, d) IN [n |-> n \div g, d |-> d \div g]
FracAdd(p, q) == Frac(p.n * q.d + q.n * p.d, p.d * q.d)
FracDiv(p, k) == Frac(p.n, p.d * k)
FracZero == [n |-> 0, d |-> 1]

\* ------------------------------------------------------- published errors
LoadErrorMsg == "Unable to load MediaPipe Pose"
FrameErrorMsg == "Pose detection frame failed"

\* ------------------------------------------------ MEDIAPIPE_INDEX_TO_NAME
MEDIAPIPE_INDEX_TO_NAME ==
  [i \in {0, 2, 5, 7, 8, 11, 12, 13, 14, 15, 16, 23, 24, 25, 26, 27, 28} |->
     CASE i = 0 -> "nose"
       [] i = 2 -> "leftEye"
       [] i = 5 -> "rightEye"
       [] i = 7 -> "leftEar"
       [] i = 8 -> "rightEar"
       [] i = 11 -> "leftShoulder"
       [] i = 12 -> "rightShoulder"
       [] i = 13 -> "leftElbow"
       [] i = 14 -> "rightElbow"
       [] i = 15 -> "leftWrist"
       [] i = 16 -> "rightWrist"
       [] i = 23 -> "leftHip"
       [] i = 24 -> "rightHip"
       [] i = 25 -> "leftKnee"
       [] i = 26 -> "rightKnee"
       [] i = 27 -> "leftAnkle"
       [] i = 28 -> "rightAnkle"]

\* ------------------------------------------------------ detector outputs
\* a raw point of the detector: z and visibility are optional, and an entry
\* of the array may be null (defined = FALSE)
PointA == [defined |-> TRUE, x |-> 0, y |-> Unit, z |-> None, visibility |-> None]
PointB == [defined |-> TRUE, x |-> Unit, y |-> 0, z |-> Some(Unit),
           visibility |-> Some(VisScale \div 2)]
NullPoint == [defined |-> FALSE, x |-> 0, y |-> 0, z |-> None, visibility |-> None]

RawFrames ==
  { << PointA, PointA, PointA >>,
    << PointB >>,
    << PointA, NullPoint, NullPoint >> }

\* what poseLandmarker.detectForVideo does on one call
DetectOutcomes ==
  { [kind |-> "throw", raw |-> << >>], [kind |-> "none", raw |-> << >>] }
    \cup { [kind |-> "pose", raw |-> r] : r \in RawFrames }

\* ------------------------------------------------------------ pure steps
\* `a ?? b` on an optional number
Coalesce(opt, default) == IF opt = None THEN default ELSE opt[1]

\* lines 109-120: the names the loop over rawLandmarks gives a value to
MappedNames(raw) ==
  { MEDIAPIPE_INDEX_TO_NAME[i] : i \in (DOMAIN MEDIAPIPE_INDEX_TO_NAME) \cap (0..(Len(raw) - 1)) }

IndexOfName(name) ==
  CHOOSE i \in DOMAIN MEDIAPIPE_INDEX_TO_NAME : MEDIAPIPE_INDEX_TO_NAME[i] = name

\* reading point.x of a null entry raises a TypeError; entries at an index
\* without a name are skipped before they are read
RemapThrows(raw) ==
  \E i \in (DOMAIN MEDIAPIPE_INDEX_TO_NAME) \cap (0..(Len(raw) - 1)) : ~raw[i + 1].defined

Remap(raw) ==
  [name \in MappedNames(raw) |->
     LET point == raw[IndexOfName(name) + 1]
     IN  [x |-> point.x,
          y |-> point.y,
          z |-> Coalesce(point.z, 0),
          visibility |-> Coalesce(point.visibility, VisScale)]]

\* Lerp with the sign of the correction slipped
LerpAway(prev, value, alpha) == prev - ((value - prev) * alpha) \div AlphaDen

\* lines 130-132: prev + (value - prev) * smoothing, smoothing = alpha/AlphaDen
Lerp(prev, value, alpha) == prev + ((value - prev) * alpha) \div AlphaDen

\* lines 122-137: the next content of smoothRef.current
Smooth(previous, mapped, alpha) ==
  IF previous = None
    THEN mapped
    ELSE [key \in DOMAIN mapped |->
            LET value == mapped[key]
                prev == IF key \in DOMAIN previous[1] THEN previous[1][key] ELSE value
            IN  [x |-> Lerp(prev.x, value.x, alpha),
                 y |-> Lerp(prev.y, value.y, alpha),
                 z |-> Lerp(prev.z, value.z, alpha),
                 visibility |-> prev.visibility]]

\* Throttled with the spacing one millisecond short
ThrottledShort(elapsed) == elapsed < MinFrameMs - 1

\* line 99
Throttled(elapsed) == elapsed < MinFrameMs

\* PushFps that never drops a sample
PushFpsGrows(window, elapsed) == Append(window, Frac(MsPerSecond, elapsed))

\* lines 140-142
PushFps(window, elapsed) ==
  LET pushed == Append(window, Frac(MsPerSecond, elapsed))
  IN  IF Len(pushed) > FpsWindowSize THEN Tail(pushed) ELSE pushed

RECURSIVE SumFps(_)
SumFps(window) ==
  IF window = << >> THEN FracZero ELSE FracAdd(window[1], SumFps(Tail(window)))

\* lines 143-144
AvgFps(window) == FracDiv(SumFps(window), Len(window))

\* ----------------------------------------------------------------- state
VARIABLES
  mounted,            \* "init" | "mounted" | "unmounted"
  enabled,            \* option `enabled` of the last render
  smoothing,          \* option `smoothing` of the last render (numerator)
  videoReady,         \* videoRef.current is an element with readyState >= 2
  state,              \* useState: landmarks, fps, ready, error
  smoothRef,          \* smoothRef.current
  rafRef,             \* rafRef.current
  lastFrameTimeRef,   \* lastFrameTimeRef.current
  fpsWindowRef,       \* fpsWindowRef.current
  nsessions,          \* number of effect runs that opened a session
  current,            \* the session whose cleanup is registered, 0 if none
  running,            \* per session: `running`
  poseLandmarker,     \* per session: `poseLandmarker` is not null
  pc,                 \* per session: position of run()
  handle,             \* per session: the detector it was given, if any
  rafQueue,           \* animation frame callbacks the browser holds
  now,                \* performance.now()
  detectCalls,        \* history: per session, number of detectForVideo calls
  lastTick,           \* history: what this step's animation frame callback did
  lastSess,           \* history: the session that callback belongs to
  lastMapped,         \* history: `mapped` of this step's frame, if it has a pose
  lastDetectAt,       \* history: clock of the last detectForVideo call
  coach               \* the call of a pose-coach function under study, if any

vars == << mounted, enabled, smoothing, videoReady, state, smoothRef, rafRef,
           lastFrameTimeRef, fpsWindowRef, nsessions, current, running,
           poseLandmarker, pc, handle, rafQueue, now, detectCalls, lastTick,
           lastSess, lastMapped, lastDetectAt, coach >>

\* no call of a pose-coach function is under study
CoachIdle == [op |-> "idle"]

\* a step of the hook that runs no animation frame callback; the hook calls
\* nothing of lib/pose-coach.ts
NoTick ==
  /\ lastTick' = "none"
  /\ lastSess' = 0
  /\ lastMapped' = None
  /\ UNCHANGED << now, detectCalls, lastDetectAt, coach >>

Init ==
  /\ mounted = "init"
  /\ enabled \in BOOLEAN
  /\ smoothing \in Alphas
  /\ videoReady = FALSE
  /\ state = [landmarks |-> None, fps |-> FracZero, ready |-> FALSE, error |-> None]
  /\ smoothRef = None
  /\ rafRef = None
  /\ lastFrameTimeRef = 0
  /\ fpsWindowRef = << >>
  /\ nsessions = 0
  /\ current = 0
  /\ running = [s \in Sessions |-> FALSE]
  /\ poseLandmarker = [s \in Sessions |-> FALSE]
  /\ pc = [s \in Sessions |-> "idle"]
  /\ handle = [s \in Sessions |-> "none"]
  /\ rafQueue = {}
  /\ now = 0
  /\ detectCalls = [s \in Sessions |-> 0]
  /\ lastTick = "none"
  /\ lastSess = 0
  /\ lastMapped = None
  /\ lastDetectAt = None
  /\ coach = CoachIdle

\* ------------------------------------------------- animation frame queue
\* requestAnimationFrame returns an id no pending callback has; the model
\* takes the least positive id that is neither pending nor held in rafRef
FreshRafId(queue, ref) ==
  CHOOSE id \in 1..(Cardinality(queue) + 2) :
    /\ id \notin { cb.id : cb \in queue }
    /\ ref # Some(id)
    /\ \A j \in 1..(id - 1) : j \in { cb.id : cb \in queue } \/ ref = Some(j)

RequestAnimationFrame(queue, ref, s) ==
  queue \cup { [id |-> FreshRafId(queue, ref), sess |-> s] }

\* ------------------------------------------------------ effect and cleanup
\* CleanupRaf that forgets to cancel the pending callback
CleanupRafKeeps(queue, ref) == queue

\* line 166: if (rafRef.current) cancelAnimationFrame(rafRef.current)
CleanupRaf(queue, ref) ==
  IF ref = None THEN queue ELSE { cb \in queue : cb.id # ref[1] }

\* line 167: if (poseLandmarker?.close) poseLandmarker.close()
CleanupClose(held, h) == IF held THEN "closed" ELSE h

\* lines 164-168 applied to the session whose cleanup is registered
RunningAfterCleanup ==
  IF current = 0 THEN running ELSE [running EXCEPT ![current] = FALSE]

QueueAfterCleanup ==
  IF current = 0 THEN rafQueue ELSE CleanupRaf(rafQueue, rafRef)

HandleAfterCleanup ==
  IF current = 0
    THEN handle
    ELSE [handle EXCEPT ![current] = CleanupClose(poseLandmarker[current], handle[current])]

\* lines 57-65 and 162: the effect body, run after the cleanup of the last one
EffectBody(e, runningC) ==
  IF ~e
    THEN /\ state' = [state EXCEPT !.landmarks = None, !.ready = FALSE]
         /\ current' = 0
         /\ running' = runningC
         /\ UNCHANGED << nsessions, pc >>
    ELSE /\ nsessions < MaxSessions
         /\ nsessions' = nsessions + 1
         /\ current' = nsessions + 1
         /\ running' = [runningC EXCEPT ![nsessions + 1] = TRUE]
         /\ pc' = [pc EXCEPT ![nsessions + 1] = "load"]
         /\ state' = state

\* first commit of the component: the effect runs with the initial options
Mount ==
  /\ mounted = "init"
  /\ mounted' = "mounted"
  /\ EffectBody(enabled, running)
  /\ UNCHANGED << enabled, smoothing, videoReady, smoothRef, rafRef, lastFrameTimeRef,
                  fpsWindowRef, poseLandmarker, handle, rafQueue >>
  /\ NoTick

\* line 169: a render changed enabled, smoothing or videoRef; React runs the
\* cleanup of the previous effect and then the effect again
Rerender(e, a, newRef) ==
  /\ mounted = "mounted"
  /\ e # enabled \/ a # smoothing \/ newRef
  /\ enabled' = e
  /\ smoothing' = a
  /\ rafQueue' = QueueAfterCleanup
  /\ handle' = HandleAfterCleanup
  /\ EffectBody(e, RunningAfterCleanup)
  /\ UNCHANGED << mounted, videoReady, smoothRef, rafRef, lastFrameTimeRef, fpsWindowRef,
                  poseLandmarker >>
  /\ NoTick

Unmount ==
  /\ mounted = "mounted"
  /\ mounted' = "unmounted"
  /\ running' = RunningAfterCleanup
  /\ rafQueue' = QueueAfterCleanup
  /\ handle' = HandleAfterCleanup
  /\ current' = 0
  /\ UNCHANGED << enabled, smoothing, videoReady, state, smoothRef, rafRef,
                  lastFrameTimeRef, fpsWindowRef, nsessions, poseLandmarker, pc >>
  /\ NoTick

\* the video element becomes decodable, or stops being so
VideoChange ==
  /\ mounted = "mounted"
  /\ videoReady' = ~videoReady
  /\ UNCHANGED << mounted, enabled, smoothing, state, smoothRef, rafRef, lastFrameTimeRef,
                  fpsWindowRef, nsessions, current, running, poseLandmarker, pc, handle,
                  rafQueue >>
  /\ NoTick

\* ------------------------------------------------------------------ run()
\* lines 68-69: the module import and FilesetResolver.forVisionTasks resolved
\* (nothing of the hook is read or written between the two awaits); line 70
\* then asks for the detector
LoadResolve(s) ==
  /\ pc[s] = "load"
  /\ pc' = [pc EXCEPT ![s] = "create"]
  /\ UNCHANGED << mounted, enabled, smoothing, videoReady, state, smoothRef, rafRef,
                  lastFrameTimeRef, fpsWindowRef, nsessions, current, running,
                  poseLandmarker, handle, rafQueue >>
  /\ NoTick

\* CreateResolve without the `if (!running) return` of line 77
CreateResolveUnguarded(s) ==
  /\ pc[s] = "create"
  /\ handle' = [handle EXCEPT ![s] = "open"]
  /\ poseLandmarker' = [poseLandmarker EXCEPT ![s] = TRUE]
  /\ pc' = [pc EXCEPT ![s] = IF running[s] THEN "loop" ELSE "dropped"]
  /\ state' = [state EXCEPT !.ready = TRUE, !.error = None]
  /\ rafQueue' = RequestAnimationFrame(rafQueue, rafRef, s)
  /\ rafRef' = Some(FreshRafId(rafQueue, rafRef))
  /\ UNCHANGED << mounted, enabled, smoothing, videoReady, smoothRef, lastFrameTimeRef,
                  fpsWindowRef, nsessions, current, running >>
  /\ NoTick

\* lines 70-78 and 159: createFromOptions resolved with a detector
CreateResolve(s) ==
  /\ pc[s] = "create"
  /\ handle' = [handle EXCEPT ![s] = "open"]
  /\ poseLandmarker' = [poseLandmarker EXCEPT ![s] = TRUE]
  /\ IF ~running[s]
       THEN /\ pc' = [pc EXCEPT ![s] = "dropped"]
            /\ UNCHANGED << state, rafRef, rafQueue >>
       ELSE /\ pc' = [pc EXCEPT ![s] = "loop"]
            /\ state' = [state EXCEPT !.ready = TRUE, !.error = None]
            /\ rafQueue' = RequestAnimationFrame(rafQueue, rafRef, s)
            /\ rafRef' = Some(FreshRafId(rafQueue, rafRef))
  /\ UNCHANGED << mounted, enabled, smoothing, videoReady, smoothRef, lastFrameTimeRef,
                  fpsWindowRef, nsessions, current, running >>
  /\ NoTick

\* AwaitReject without the `return` of line 86: run() goes on to line 159
AwaitRejectFallsThrough(s) ==
  /\ pc[s] \in {"load", "create"}
  /\ IF ~running[s]
       THEN /\ pc' = [pc EXCEPT ![s] = "dropped"]
            /\ UNCHANGED << state, rafQueue, rafRef >>
       ELSE /\ pc' = [pc EXCEPT ![s] = "failed"]
            /\ state' = [state EXCEPT !.error = Some(LoadErrorMsg), !.ready = FALSE]
            /\ rafQueue' = RequestAnimationFrame(rafQueue, rafRef, s)
            /\ rafRef' = Some(FreshRafId(rafQueue, rafRef))
  /\ UNCHANGED << mounted, enabled, smoothing, videoReady, smoothRef,
                  lastFrameTimeRef, fpsWindowRef, nsessions, current, running,
                  poseLandmarker, handle >>
  /\ NoTick

\* lines 79-87: one of the awaits of lines 68-70 rejected
AwaitReject(s) ==
  /\ pc[s] \in {"load", "create"}
  /\ IF ~running[s]
       THEN /\ pc' = [pc EXCEPT ![s] = "dropped"]
            /\ state' = state
       ELSE /\ pc' = [pc EXCEPT ![s] = "failed"]
            /\ state' = [state EXCEPT !.error = Some(LoadErrorMsg), !.ready = FALSE]
  /\ UNCHANGED << mounted, enabled, smoothing, videoReady, smoothRef, rafRef,
                  lastFrameTimeRef, fpsWindowRef, nsessions, current, running,
                  poseLandmarker, handle, rafQueue >>
  /\ NoTick

\* ---------------------------------------------------------------- detect()
\* FrameFailed that also drops the published landmarks
FrameFailedClears(st) == [st EXCEPT !.error = Some(FrameErrorMsg), !.landmarks = None]

\* line 153
FrameFailed(st) == [st EXCEPT !.error = Some(FrameErrorMsg)]

\* lines 145-149; the mean of finite samples is finite
Publish(st, smooth, window) ==
  [st EXCEPT !.landmarks = smooth, !.fps = AvgFps(window)]

\* ProcessFrame that forgets the pose when the detector returns none
ProcessFrameNoPoseClears(out, elapsed, alpha) ==
  IF out.kind = "throw" \/ (out.kind = "pose" /\ RemapThrows(out.raw))
    THEN [smooth |-> smoothRef, window |-> fpsWindowRef, st |-> FrameFailed(state),
          tick |-> "threw", mapped |-> None]
  ELSE IF out.kind = "none"
    THEN [smooth |-> None, window |-> fpsWindowRef,
          st |-> [state EXCEPT !.landmarks = None],
          tick |-> "nopose", mapped |-> None]
  ELSE LET mapped == Remap(out.raw)
           smooth == Some(Smooth(smoothRef, mapped, alpha))
           window == PushFps(fpsWindowRef, elapsed)
       IN  IF elapsed > 0
             THEN [smooth |-> smooth, window |-> window,
                   st |-> Publish(state, smooth, window),
                   tick |-> "published", mapped |-> Some(mapped)]
             ELSE [smooth |-> smooth, window |-> fpsWindowRef, st |-> state,
                   tick |-> "silent", mapped |-> Some(mapped)]

\* lines 105-154: the try block of one processed frame, given what
\* detectForVideo did; the result is the new session and published state
ProcessFrame(out, elapsed, alpha) ==
  IF out.kind = "throw" \/ (out.kind = "pose" /\ RemapThrows(out.raw))
    THEN [smooth |-> smoothRef, window |-> fpsWindowRef, st |-> FrameFailed(state),
          tick |-> "threw", mapped |-> None]
  ELSE IF out.kind = "none"
    THEN [smooth |-> smoothRef, window |-> fpsWindowRef, st |-> state,
          tick |-> "nopose", mapped |-> None]
  ELSE LET mapped == Remap(out.raw)
           smooth == Some(Smooth(smoothRef, mapped, alpha))
           window == PushFps(fpsWindowRef, elapsed)
       IN  IF elapsed > 0
             THEN [smooth |-> smooth, window |-> window,
                   st |-> Publish(state, smooth, window),
                   tick |-> "published", mapped |-> Some(mapped)]
             ELSE [smooth |-> smooth, window |-> fpsWindowRef, st |-> state,
                   tick |-> "silent", mapped |-> Some(mapped)]

\* lines 89-157: the browser runs one pending animation frame callback, dt ms
\* after the last one; `out` is what detectForVideo does if it is called.
\* `smoothing` is the value the session's closure captured: a render that
\* changes it restarts the session (line 169)
TickWithin(dt, out, limit) ==
  /\ now + dt <= limit
  /\ \E cb \in rafQueue :
       LET s == cb.sess
           fired == rafQueue \ {cb}
           t == now + dt
           elapsed == t - lastFrameTimeRef
           again == RequestAnimationFrame(fired, rafRef, s)
           againId == Some(FreshRafId(fired, rafRef))
           frame == ProcessFrame(out, elapsed, smoothing)
       IN  /\ now' = t
           /\ lastSess' = s
           /\ IF ~running[s]
                THEN /\ rafQueue' = fired
                     /\ lastTick' = "stale"
                     /\ lastMapped' = None
                     /\ UNCHANGED << state, smoothRef, rafRef, lastFrameTimeRef,
                                     fpsWindowRef, detectCalls, lastDetectAt >>
              ELSE IF ~videoReady \/ ~poseLandmarker[s]
                THEN /\ rafQueue' = again
                     /\ rafRef' = againId
                     /\ lastTick' = "idle"
                     /\ lastMapped' = None
                     /\ UNCHANGED << state, smoothRef, lastFrameTimeRef, fpsWindowRef,
                                     detectCalls, lastDetectAt >>
              ELSE IF Throttled(elapsed)
                THEN /\ rafQueue' = again
                     /\ rafRef' = againId
                     /\ lastTick' = "dropped"
                     /\ lastMapped' = None
                     /\ UNCHANGED << state, smoothRef, lastFrameTimeRef, fpsWindowRef,
                                     detectCalls, lastDetectAt >>
                ELSE /\ lastFrameTimeRef' = t
                     /\ lastDetectAt' = Some(t)
                     /\ detectCalls' = [detectCalls EXCEPT ![s] = @ + 1]
                     /\ smoothRef' = frame.smooth
                     /\ fpsWindowRef' = frame.window
                     /\ state' = frame.st
                     /\ lastTick' = frame.tick
                     /\ lastMapped' = frame.mapped
                     /\ rafQueue' = again
                     /\ rafRef' = againId
  /\ UNCHANGED << mounted, enabled, smoothing, videoReady, nsessions, current, running,
                  poseLandmarker, pc, handle, coach >>

\* one animation frame within the clock of the hook's specification
Tick(dt, out) == TickWithin(dt, out, MaxTime)

\* ------------------------------------------------------------ specification
Next ==
  \/ Mount
  \/ \E e \in BOOLEAN, a \in Alphas, newRef \in BOOLEAN : Rerender(e, a, newRef)
  \/ Unmount
  \/ VideoChange
  \/ \E s \in Sessions : LoadResolve(s)
  \/ \E s \in Sessions : CreateResolve(s)
  \/ \E s \in Sessions : AwaitReject(s)
  \/ \E dt \in Dts, out \in DetectOutcomes : Tick(dt, out)

Spec == Init /\ [][Next]_vars

\* ------------------------------------- specification of a long session
\* performance.now() when the hook is mounted
StartClocks == {0, 20, 95}

\* detectForVideo throws or returns a pose
FpsOutcomes == { out \in DetectOutcomes : out.kind # "none" }

\* the hook after Mount, VideoChange, LoadResolve(1) and CreateResolve(1),
\* mounted with smoothing = 1 at some clock
InitFps ==
  /\ mounted = "mounted"
  /\ enabled = TRUE
  /\ smoothing = AlphaDen
  /\ videoReady = TRUE
  /\ state = [landmarks |-> None, fps |-> FracZero, ready |-> TRUE, error |-> None]
  /\ smoothRef = None
  /\ rafRef = Some(1)
  /\ lastFrameTimeRef = 0
  /\ fpsWindowRef = << >>
  /\ nsessions = 1
  /\ current = 1
  /\ running = [s \in Sessions |-> s = 1]
  /\ poseLandmarker = [s \in Sessions |-> s = 1]
  /\ pc = [s \in Sessions |-> IF s = 1 THEN "loop" ELSE "idle"]
  /\ handle = [s \in Sessions |-> IF s = 1 THEN "open" ELSE "none"]
  /\ rafQueue = { [id |-> 1, sess |-> 1] }
  /\ now \in StartClocks
  /\ detectCalls = [s \in Sessions |-> 0]
  /\ lastTick = "none"
  /\ lastSess = 0
  /\ lastMapped = None
  /\ lastDetectAt = None
  /\ coach = CoachIdle

\* the animation frames of that session, one every 5 ms
FpsTick == \E dt \in Dts, out \in FpsOutcomes : TickWithin(dt, out, MaxFpsTime)

NextFps == FpsTick

SpecFps == InitFps /\ [][NextFps]_vars

\* ======================================================================
\* lib/pose-coach.ts.  Numbers are exact rationals [n, d] in lowest terms
\* with d > 0.  Math.hypot is the exact root; the inputs of the
\* specification below are those for which every root taken is rational.
\* IEEE rounding of the doubles is not modelled.
\* ======================================================================
AbsInt(k) == IF k < 0 THEN -k ELSE k

Rat(n, d) ==
  LET sn == IF d < 0 THEN -n ELSE n
      sd == AbsInt(d)
      g == Gcd(AbsInt(sn), sd)
  IN  [n |-> sn \div g, d |-> sd \div g]

RInt(k) == [n |-> k, d |-> 1]
RNeg(p) == [n |-> -p.n, d |-> p.d]
RAdd(p, q) ==
  LET g == Gcd(p.d, q.d)
  IN  Rat(p.n * (q.d \div g) + q.n * (p.d \div g), (p.d \div g) * q.d)
RSub(p, q) == RAdd(p, RNeg(q))
RMul(p, q) ==
  LET g1 == Gcd(AbsInt(p.n), q.d)
      g2 == Gcd(AbsInt(q.n), p.d)
  IN  IF p.n = 0 \/ q.n = 0
        THEN RInt(0)
        ELSE [n |-> (p.n \div g1) * (q.n \div g2), d |-> (p.d \div g2) * (q.d \div g1)]
\* p / q for q # 0
RDiv(p, q) == RMul(p, Rat(q.d, q.n))
RLe(p, q) == p.n * q.d <= q.n * p.d
RLt(p, q) == p.n * q.d < q.n * p.d
\* Math.max and Math.min
RMax(p, q) == IF RLe(p, q) THEN q ELSE p
RMin(p, q) == IF RLe(p, q) THEN p ELSE q

\* the integer root of k >= 0, rounded down
RECURSIVE ISqrtIn(_, _, _)
ISqrtIn(k, lo, hi) ==
  IF lo >= hi
    THEN lo
    ELSE LET mid == (lo + hi + 1) \div 2
         IN  IF mid <= k \div mid THEN ISqrtIn(k, mid, hi) ELSE ISqrtIn(k, lo, mid - 1)
ISqrt(k) == IF k = 0 THEN 0 ELSE ISqrtIn(k, 1, k)
IsSquare(k) == ISqrt(k) * ISqrt(k) = k

\* a*a + b*b and whether its root is rational
SumSquares(a, b) == RAdd(RMul(a, a), RMul(b, b))
ExactHypot(a, b) == IsSquare(SumSquares(a, b).n) /\ IsSquare(SumSquares(a, b).d)

\* Math.hypot(a, b) where ExactHypot(a, b)
Hypot(a, b) == [n |-> ISqrt(SumSquares(a, b).n), d |-> ISqrt(SumSquares(a, b).d)]

\* lines 41-45
ConfusedMax == Rat(4, 10)
FocusedMax == Rat(7, 10)
HappyMax == Rat(9, 10)

\* lines 3-20
PoseKeypointNames ==
  { "nose", "leftEye", "rightEye", "leftEar", "rightEar", "leftShoulder",
    "rightShoulder", "leftElbow", "rightElbow", "leftWrist", "rightWrist",
    "leftHip", "rightHip", "leftKnee", "rightKnee", "leftAnkle", "rightAnkle" }

\* lines 47-57
RequiredScoreKeysWithKnee ==
  << "nose", "leftShoulder", "rightShoulder", "leftElbow", "rightElbow",
     "leftWrist", "rightWrist", "leftHip", "rightHip", "leftKnee" >>
REQUIRED_SCORE_KEYS ==
  << "nose", "leftShoulder", "rightShoulder", "leftElbow", "rightElbow",
     "leftWrist", "rightWrist", "leftHip", "rightHip" >>

\* line 59; the defaults min = -1, max = 1 are ClampUnit
Clamp(value, min, max) == RMax(min, RMin(max, value))
ClampUnit(value) == Clamp(value, RInt(-1), RInt(1))

\* line 61
ToPoint3D(x, y, z) == [x |-> x, y |-> y, z |-> z, visibility |-> None]

\* landmarks[key]?.visibility as an optional number
VisibilityOf(landmarks, key) ==
  IF key \in DOMAIN landmarks THEN landmarks[key].visibility ELSE None

\* lines 63-67
VisibilityWeightInverted(landmarks, key) ==
  LET visibility == VisibilityOf(landmarks, key)
  IN  IF visibility = None
        THEN RInt(1)
        ELSE Clamp(RDiv(RSub(Rat(2, 10), visibility[1]), Rat(8, 10)), RInt(0), RInt(1))
VisibilityWeight(landmarks, key) ==
  LET visibility == VisibilityOf(landmarks, key)
  IN  IF visibility = None
        THEN RInt(1)
        ELSE Clamp(RDiv(RSub(visibility[1], Rat(2, 10)), Rat(8, 10)), RInt(0), RInt(1))

\* landmarks.key?.c ?? 0
CoordOrZero(landmarks, key, c) ==
  IF key \in DOMAIN landmarks THEN landmarks[key][c] ELSE RInt(0)

\* lines 69-80
GetPoseCenterOfPresent(landmarks) ==
  LET sumOf(c) == RAdd(RAdd(RAdd(CoordOrZero(landmarks, "leftHip", c),
                                 CoordOrZero(landmarks, "rightHip", c)),
                            CoordOrZero(landmarks, "leftShoulder", c)),
                       CoordOrZero(landmarks, "rightShoulder", c))
      present == Cardinality({"leftHip", "rightHip", "leftShoulder", "rightShoulder"}
                               \cap DOMAIN landmarks)
  IN  IF present = 0
        THEN ToPoint3D(RInt(0), RInt(0), RInt(0))
        ELSE ToPoint3D(RDiv(sumOf("x"), RInt(present)), RDiv(sumOf("y"), RInt(present)), RInt(0))
GetPoseCenterAtOrigin(landmarks) == ToPoint3D(RInt(0), RInt(0), RInt(0))
GetPoseCenter(landmarks) ==
  LET sumOf(c) == RAdd(RAdd(RAdd(CoordOrZero(landmarks, "leftHip", c),
                                 CoordOrZero(landmarks, "rightHip", c)),
                            CoordOrZero(landmarks, "leftShoulder", c)),
                       CoordOrZero(landmarks, "rightShoulder", c))
  IN  ToPoint3D(RDiv(sumOf("x"), RInt(4)), RDiv(sumOf("y"), RInt(4)), RInt(0))

TorsoKeys == { "leftShoulder", "rightShoulder", "leftHip", "rightHip" }

\* lines 90-95: the two arguments of each Math.hypot
ShoulderSpan(landmarks) ==
  << RSub(landmarks["leftShoulder"].x, landmarks["rightShoulder"].x),
     RSub(landmarks["leftShoulder"].y, landmarks["rightShoulder"].y) >>
HipSpan(landmarks) ==
  << RSub(landmarks["leftHip"].x, landmarks["rightHip"].x),
     RSub(landmarks["leftHip"].y, landmarks["rightHip"].y) >>
TorsoSpan(landmarks) ==
  << RSub(RDiv(RAdd(landmarks["leftShoulder"].x, landmarks["rightShoulder"].x), RInt(2)),
          RDiv(RAdd(landmarks["leftHip"].x, landmarks["rightHip"].x), RInt(2))),
     RSub(RDiv(RAdd(landmarks["leftShoulder"].y, landmarks["rightShoulder"].y), RInt(2)),
          RDiv(RAdd(landmarks["leftHip"].y, landmarks["rightHip"].y), RInt(2))) >>

\* line 97 before the floor
RawPoseScale(landmarks) ==
  RAdd(RAdd(RMul(Hypot(ShoulderSpan(landmarks)[1], ShoulderSpan(landmarks)[2]), Rat(5, 10)),
            RMul(Hypot(HipSpan(landmarks)[1], HipSpan(landmarks)[2]), Rat(2, 10))),
       RMul(Hypot(TorsoSpan(landmarks)[1], TorsoSpan(landmarks)[2]), Rat(6, 10)))

\* line 97
MinPoseScale == Rat(1, 10000)

\* lines 82-98
GetPoseScaleUnit(landmarks) == RInt(1)
GetPoseScale(landmarks) ==
  IF ~(TorsoKeys \subseteq DOMAIN landmarks)
    THEN RInt(1)
    ELSE RMax(MinPoseScale, RawPoseScale(landmarks))

\* lines 100-115
NormalizeLandmarks(landmarks) ==
  LET center == GetPoseCenter(landmarks)
      scale == GetPoseScale(landmarks)
  IN  [key \in DOMAIN landmarks |->
         [x |-> RDiv(RSub(landmarks[key].x, center.x), scale),
          y |-> RDiv(RSub(landmarks[key].y, center.y), scale),
          z |-> RDiv(landmarks[key].z, scale),
          visibility |-> landmarks[key].visibility]]

\* lines 117-123; a Skeleton gives every name a point {x, y} in 0..100
SkeletonToLandmarks(skeleton) ==
  [key \in DOMAIN skeleton |->
     ToPoint3D(Rat(skeleton[key].x, 100), Rat(skeleton[key].y, 100), RInt(0))]

\* lines 23-41 and 43-61 of lib/pose-data.ts
P(x, y) == [x |-> x, y |-> y]
initialPose ==
  [ nose |-> P(50, 25), leftEye |-> P(52, 24), rightEye |-> P(48, 24),
    leftEar |-> P(55, 26), rightEar |-> P(45, 26),
    leftShoulder |-> P(65, 35), rightShoulder |-> P(35, 35),
    leftElbow |-> P(70, 45), rightElbow |-> P(30, 45),
    leftWrist |-> P(75, 55), rightWrist |-> P(25, 55),
    leftHip |-> P(60, 60), rightHip |-> P(40, 60),
    leftKnee |-> P(62, 75), rightKnee |-> P(38, 75),
    leftAnkle |-> P(64, 90), rightAnkle |-> P(36, 90) ]
perfectPose ==
  [ nose |-> P(50, 20), leftEye |-> P(52, 19), rightEye |-> P(48, 19),
    leftEar |-> P(56, 21), rightEar |-> P(44, 21),
    leftShoulder |-> P(70, 30), rightShoulder |-> P(30, 30),
    leftElbow |-> P(80, 45), rightElbow |-> P(20, 45),
    leftWrist |-> P(75, 60), rightWrist |-> P(25, 60),
    leftHip |-> P(60, 55), rightHip |-> P(40, 55),
    leftKnee |-> P(65, 70), rightKnee |-> P(35, 70),
    leftAnkle |-> P(70, 85), rightAnkle |-> P(30, 85) ]

\* lines 134-141: the required keys both normalised poses have
ScoredKeys(a, b) ==
  { i \in DOMAIN REQUIRED_SCORE_KEYS :
      REQUIRED_SCORE_KEYS[i] \in DOMAIN a /\ REQUIRED_SCORE_KEYS[i] \in DOMAIN b }

\* line 139: the two arguments of Math.hypot for one key
KeyOffset(a, b, key) == << RSub(a[key].x, b[key].x), RSub(a[key].y, b[key].y) >>

\* lines 131-142: the loop over REQUIRED_SCORE_KEYS, from index i on
RECURSIVE ScoreLoop(_, _, _, _, _, _)
ScoreLoop(cur, a, b, i, totalDistance, totalWeight) ==
  IF i > Len(REQUIRED_SCORE_KEYS)
    THEN [totalDistance |-> totalDistance, totalWeight |-> totalWeight]
    ELSE LET key == REQUIRED_SCORE_KEYS[i]
         IN  IF key \notin DOMAIN a \/ key \notin DOMAIN b
               THEN ScoreLoop(cur, a, b, i + 1, totalDistance, totalWeight)
               ELSE LET weight == VisibilityWeight(cur, key)
                        distance == Hypot(KeyOffset(a, b, key)[1], KeyOffset(a, b, key)[2])
                    IN  ScoreLoop(cur, a, b, i + 1,
                                  RAdd(totalDistance, RMul(distance, weight)),
                                  RAdd(totalWeight, weight))

\* line 146
MaxMeanDistance == Rat(125, 100)
ScoreOfMeanUnclamped(meanDistance) == RSub(RInt(1), RDiv(meanDistance, MaxMeanDistance))
ScoreOfMeanInverted(meanDistance) ==
  Clamp(RDiv(meanDistance, MaxMeanDistance), RInt(0), RInt(1))
ScoreOfMean(meanDistance) ==
  Clamp(RSub(RInt(1), RDiv(meanDistance, MaxMeanDistance)), RInt(0), RInt(1))

\* lines 125-147; target is None for null and Some(skeleton) otherwise
NullTargetAsInitialPose(cur, target) ==
  LET a == NormalizeLandmarks(cur)
      b == NormalizeLandmarks(SkeletonToLandmarks(IF target = None THEN initialPose ELSE target[1]))
      sums == ScoreLoop(cur, a, b, 1, RInt(0), RInt(0))
  IN  IF sums.totalWeight.n = 0
        THEN RInt(0)
        ELSE ScoreOfMean(RDiv(sums.totalDistance, sums.totalWeight))
ZeroWeightScoresOne(cur, target) ==
  IF target = None
    THEN RInt(0)
    ELSE LET a == NormalizeLandmarks(cur)
             b == NormalizeLandmarks(SkeletonToLandmarks(target[1]))
             sums == ScoreLoop(cur, a, b, 1, RInt(0), RInt(0))
         IN  IF sums.totalWeight.n = 0
               THEN RInt(1)
               ELSE ScoreOfMean(RDiv(sums.totalDistance, sums.totalWeight))
CalculatePoseMatchScore(cur, target) ==
  IF target = None
    THEN RInt(0)
    ELSE LET a == NormalizeLandmarks(cur)
             b == NormalizeLandmarks(SkeletonToLandmarks(target[1]))
             sums == ScoreLoop(cur, a, b, 1, RInt(0), RInt(0))
         IN  IF sums.totalWeight.n = 0
               THEN RInt(0)
               ELSE ScoreOfMean(RDiv(sums.totalDistance, sums.totalWeight))

\* every Math.hypot a scoring of cur against target takes is rational
ExactScale(landmarks) ==
  TorsoKeys \subseteq DOMAIN landmarks =>
    /\ ExactHypot(ShoulderSpan(landmarks)[1], ShoulderSpan(landmarks)[2])
    /\ ExactHypot(HipSpan(landmarks)[1], HipSpan(landmarks)[2])
    /\ ExactHypot(TorsoSpan(landmarks)[1], TorsoSpan(landmarks)[2])
ExactScore(cur, target) ==
  /\ ExactScale(cur)
  /\ target # None =>
       LET t == SkeletonToLandmarks(target[1])
           a == NormalizeLandmarks(cur)
           b == NormalizeLandmarks(t)
       IN  /\ ExactScale(t)
           /\ \A i \in ScoredKeys(a, b) :
                ExactHypot(KeyOffset(a, b, REQUIRED_SCORE_KEYS[i])[1],
                           KeyOffset(a, b, REQUIRED_SCORE_KEYS[i])[2])

\* lines 158-159: the arm angle of one side, 0 when a joint is missing
ArmAngleOfUpperArm(n, shoulder, elbow, wrist) ==
  IF {shoulder, elbow, wrist} \subseteq DOMAIN n
    THEN RMul(RSub(n[shoulder].y, n[elbow].y), Rat(18, 10))
    ELSE RInt(0)
ArmAngleMissingAsZero(n, shoulder, elbow, wrist) ==
  RMul(RSub(RAdd(RSub(CoordOrZero(n, shoulder, "y"), CoordOrZero(n, elbow, "y")),
                 CoordOrZero(n, elbow, "y")),
            CoordOrZero(n, wrist, "y")),
       Rat(18, 10))
ArmAngle(n, shoulder, elbow, wrist) ==
  IF {shoulder, elbow, wrist} \subseteq DOMAIN n
    THEN RMul(RSub(RAdd(RSub(n[shoulder].y, n[elbow].y), n[elbow].y), n[wrist].y), Rat(18, 10))
    ELSE RInt(0)

\* lines 149-176
GetFoxRigSignalsUnclampedLean(landmarks) ==
  LET n == NormalizeLandmarks(landmarks)
      bothShoulders == {"leftShoulder", "rightShoulder"} \subseteq DOMAIN n
      bothHips == {"leftHip", "rightHip"} \subseteq DOMAIN n
      shoulderSlope == IF bothShoulders
                         THEN RMul(RSub(n["leftShoulder"].y, n["rightShoulder"].y), Rat(-25, 10))
                         ELSE RInt(0)
      shoulderWidth == IF bothShoulders
                         THEN RSub(n["leftShoulder"].x, n["rightShoulder"].x)
                         ELSE RInt(0)
      bodyLean == RMul(shoulderWidth, Rat(-8, 10))
      hipCenterX == IF bothHips
                      THEN RDiv(RAdd(n["leftHip"].x, n["rightHip"].x), RInt(2))
                      ELSE RInt(0)
      noseX == IF "nose" \in DOMAIN n THEN n["nose"].x ELSE RInt(0)
  IN  [ headTilt |-> ClampUnit(RAdd(RMul(noseX, RInt(-2)), RMul(shoulderSlope, Rat(55, 100)))),
        leftArmLift |-> ClampUnit(ArmAngle(n, "leftShoulder", "leftElbow", "leftWrist")),
        rightArmLift |-> ClampUnit(ArmAngle(n, "rightShoulder", "rightElbow", "rightWrist")),
        bodyLean |-> bodyLean,
        balanceShift |-> ClampUnit(RMul(hipCenterX, Rat(24, 10))) ]
\* lines 152-175 on the normalised landmarks n of line 150
RigSignalsOfNormalized(n) ==
  LET bothShoulders == {"leftShoulder", "rightShoulder"} \subseteq DOMAIN n
      bothHips == {"leftHip", "rightHip"} \subseteq DOMAIN n
      shoulderSlope == IF bothShoulders
                         THEN RMul(RSub(n["leftShoulder"].y, n["rightShoulder"].y), Rat(-25, 10))
                         ELSE RInt(0)
      shoulderWidth == IF bothShoulders
                         THEN RSub(n["leftShoulder"].x, n["rightShoulder"].x)
                         ELSE RInt(0)
      bodyLean == RMul(shoulderWidth, Rat(-8, 10))
      hipCenterX == IF bothHips
                      THEN RDiv(RAdd(n["leftHip"].x, n["rightHip"].x), RInt(2))
                      ELSE RInt(0)
      noseX == IF "nose" \in DOMAIN n THEN n["nose"].x ELSE RInt(0)
  IN  [ headTilt |-> ClampUnit(RAdd(RMul(noseX, RInt(-2)), RMul(shoulderSlope, Rat(55, 100)))),
        leftArmLift |-> ClampUnit(ArmAngle(n, "leftShoulder", "leftElbow", "leftWrist")),
        rightArmLift |-> ClampUnit(ArmAngle(n, "rightShoulder", "rightElbow", "rightWrist")),
        bodyLean |-> ClampUnit(bodyLean),
        balanceShift |-> ClampUnit(RMul(hipCenterX, Rat(24, 10))) ]
GetFoxRigSignals(landmarks) == RigSignalsOfNormalized(NormalizeLandmarks(landmarks))

\* lines 178-183
GetFoxEmotionStrict(score) ==
  IF RLt(score, ConfusedMax) THEN "confused"
  ELSE IF RLt(score, FocusedMax) THEN "focused"
  ELSE IF RLt(score, HappyMax) THEN "happy"
  ELSE "celebrate"
GetFoxEmotion(score) ==
  IF RLe(score, ConfusedMax) THEN "confused"
  ELSE IF RLe(score, FocusedMax) THEN "focused"
  ELSE IF RLe(score, HappyMax) THEN "happy"
  ELSE "celebrate"

\* lines 186-189: a required key counts when its visibility is not a number
\* or is above 0.45
VisibleThreshold == Rat(45, 100)
VisibleCountOfPresent(landmarks) ==
  Cardinality({ i \in DOMAIN REQUIRED_SCORE_KEYS :
                  /\ REQUIRED_SCORE_KEYS[i] \in DOMAIN landmarks
                  /\ LET vis == VisibilityOf(landmarks, REQUIRED_SCORE_KEYS[i])
                     IN  vis = None \/ RLt(VisibleThreshold, vis[1]) })
VisibleCount(landmarks) ==
  Cardinality({ i \in DOMAIN REQUIRED_SCORE_KEYS :
                  LET vis == VisibilityOf(landmarks, REQUIRED_SCORE_KEYS[i])
                  IN  vis = None \/ RLt(VisibleThreshold, vis[1]) })

MinVisibleKeys == 6
StepBackMsg == "Step back so your full upper body is visible."
PlayfulMsg == "Fox is playful. Match shoulder and elbow angles first."
FocusingMsg == "Fox is focusing. Small arm and torso adjustments needed."
NiceMsg == "Nice pose. Hold steady and refine your balance."
PerfectMsg == "Perfect match. Fox is celebrating!"

\* lines 185-197
GetPoseFeedbackInclusive(score, landmarks) ==
  IF VisibleCount(landmarks) < MinVisibleKeys THEN StepBackMsg
  ELSE IF RLe(score, Rat(4, 10)) THEN PlayfulMsg
  ELSE IF RLe(score, Rat(7, 10)) THEN FocusingMsg
  ELSE IF RLe(score, Rat(9, 10)) THEN NiceMsg
  ELSE PerfectMsg
GetPoseFeedbackIgnoresVisibility(score, landmarks) ==
  IF RLt(score, Rat(4, 10)) THEN PlayfulMsg
  ELSE IF RLt(score, Rat(7, 10)) THEN FocusingMsg
  ELSE IF RLt(score, Rat(9, 10)) THEN NiceMsg
  ELSE PerfectMsg
GetPoseFeedback(score, landmarks) ==
  IF VisibleCount(landmarks) < MinVisibleKeys THEN StepBackMsg
  ELSE IF RLt(score, Rat(4, 10)) THEN PlayfulMsg
  ELSE IF RLt(score, Rat(7, 10)) THEN FocusingMsg
  ELSE IF RLt(score, Rat(9, 10)) THEN NiceMsg
  ELSE PerfectMsg

\* ----------------------------------------------- pose-coach calls studied
\* a landmark map whose four torso points coincide
CollapsedPose ==
  [key \in PoseKeypointNames |->
     IF key = "nose"
       THEN [x |-> Rat(1, 2), y |-> Rat(1, 4), z |-> Rat(1, 5), visibility |-> None]
       ELSE [x |-> Rat(1, 2), y |-> Rat(1, 2), z |-> RInt(0), visibility |-> None]]

BasePoses == {"initial", "perfect", "collapsed"}
BaseMap(base) ==
  CASE base = "initial" -> SkeletonToLandmarks(initialPose)
    [] base = "perfect" -> SkeletonToLandmarks(perfectPose)
    [] base = "collapsed" -> CollapsedPose

\* which keys of a PoseLandmarkMap are present
KeyProfiles == {"all", "required", "noWrists", "noHip", "noShoulder", "noseOnly", "empty"}
KeysOf(profile) ==
  CASE profile = "all" -> PoseKeypointNames
    [] profile = "required" -> { REQUIRED_SCORE_KEYS[i] : i \in DOMAIN REQUIRED_SCORE_KEYS }
    [] profile = "noWrists" -> PoseKeypointNames \ {"leftWrist", "rightWrist"}
    [] profile = "noHip" -> PoseKeypointNames \ {"rightHip"}
    [] profile = "noShoulder" -> PoseKeypointNames \ {"leftShoulder"}
    [] profile = "noseOnly" -> {"nose"}
    [] profile = "empty" -> {}

\* the optional visibility of each key
ArmKeys == {"leftElbow", "rightElbow", "leftWrist", "rightWrist"}
VisProfiles == {"absent", "one", "half", "floor", "dark", "dim", "lowArms", "lowThree"}
VisibilityIn(profile, key) ==
  CASE profile = "absent" -> None
    [] profile = "one" -> Some(RInt(1))
    [] profile = "half" -> Some(Rat(1, 2))
    [] profile = "floor" -> Some(Rat(45, 100))
    [] profile = "dark" -> Some(Rat(2, 10))
    [] profile = "dim" -> Some(Rat(1, 10))
    [] profile = "lowArms" -> IF key \in ArmKeys THEN Some(Rat(3, 10)) ELSE Some(RInt(1))
    [] profile = "lowThree" ->
         IF key \in {"nose", "leftWrist", "rightWrist"} THEN Some(Rat(45, 100)) ELSE None

\* one key moved by (dx, dy) hundredths of the frame
Move(key, dx, dy) == [key |-> key, dx |-> dx, dy |-> dy]
Moves ==
  { Move("nose", 0, 0), Move("leftWrist", 30, 0), Move("leftWrist", 30, 40),
    Move("nose", -50, 0), Move("rightElbow", -300, 400), Move("nose", 0, -15) }
Moved(landmarks, move) ==
  [key \in DOMAIN landmarks |->
     IF key = move.key
       THEN [landmarks[key] EXCEPT !.x = RAdd(@, Rat(move.dx, 100)),
                                   !.y = RAdd(@, Rat(move.dy, 100))]
       ELSE landmarks[key]]

BuildMap(base, keys, vis, move) ==
  Moved([key \in KeysOf(keys) |-> [BaseMap(base)[key] EXCEPT !.visibility = VisibilityIn(vis, key)]],
        move)

\* (dx, dy) added to the x and y of every landmark
Offsets == { << Rat(1, 10), RInt(0) >>, << Rat(-1, 4), Rat(1, 3) >>, << RInt(7), RInt(-3) >> }
Translated(landmarks, offset) ==
  [key \in DOMAIN landmarks |->
     [landmarks[key] EXCEPT !.x = RAdd(@, offset[1]), !.y = RAdd(@, offset[2])]]

\* every coordinate of every landmark multiplied by s > 0
Factors == { Rat(1, 2), RInt(2), RInt(1000) }
Scaled(landmarks, s) ==
  [key \in DOMAIN landmarks |->
     [landmarks[key] EXCEPT !.x = RMul(@, s), !.y = RMul(@, s), !.z = RMul(@, s)]]

Targets == { None, Some(initialPose), Some(perfectPose) }
Scores ==
  { RInt(0), Rat(39, 100), Rat(4, 10), Rat(41, 100), Rat(7, 10), Rat(71, 100),
    Rat(9, 10), Rat(91, 100), Rat(99, 100), RInt(1) }

\* the arguments of the calls: a landmark map and a target
InitCoach ==
  /\ mounted = "init"
  /\ enabled = FALSE
  /\ smoothing = DefaultSmoothing
  /\ videoReady = FALSE
  /\ state = [landmarks |-> None, fps |-> FracZero, ready |-> FALSE, error |-> None]
  /\ smoothRef = None
  /\ rafRef = None
  /\ lastFrameTimeRef = 0
  /\ fpsWindowRef = << >>
  /\ nsessions = 0
  /\ current = 0
  /\ running = [s \in Sessions |-> FALSE]
  /\ poseLandmarker = [s \in Sessions |-> FALSE]
  /\ pc = [s \in Sessions |-> "idle"]
  /\ handle = [s \in Sessions |-> "none"]
  /\ rafQueue = {}
  /\ now = 0
  /\ detectCalls = [s \in Sessions |-> 0]
  /\ lastTick = "none"
  /\ lastSess = 0
  /\ lastMapped = None
  /\ lastDetectAt = None
  /\ \E base \in BasePoses, keys \in KeyProfiles, vis \in VisProfiles, move \in Moves,
        target \in Targets :
       /\ move.key \in KeysOf(keys)
       /\ base = "collapsed" => target = None
       /\ ExactScore(BuildMap(base, keys, vis, move), target)
       /\ coach = [op |-> "input", cur |-> BuildMap(base, keys, vis, move), target |-> target]

hookVars == << mounted, enabled, smoothing, videoReady, state, smoothRef, rafRef,
               lastFrameTimeRef, fpsWindowRef, nsessions, current, running,
               poseLandmarker, pc, handle, rafQueue, now, detectCalls, lastTick,
               lastSess, lastMapped, lastDetectAt >>

\* normalizeLandmarks(cur)
Normalize ==
  /\ coach.op = "input"
  /\ coach' = [op |-> "normalize", cur |-> coach.cur, target |-> coach.target,
               out |-> NormalizeLandmarks(coach.cur)]
  /\ UNCHANGED hookVars

\* normalizeLandmarks of cur moved as a whole
NormalizeTranslated(offset) ==
  /\ coach.op = "normalize"
  /\ coach' = [op |-> "translated", cur |-> coach.cur, target |-> coach.target,
               out |-> coach.out, arg |-> offset,
               out2 |-> NormalizeLandmarks(Translated(coach.cur, offset))]
  /\ UNCHANGED hookVars

\* normalizeLandmarks of cur scaled as a whole
NormalizeScaled(s) ==
  /\ coach.op = "normalize"
  /\ ExactScale(Scaled(coach.cur, s))
  /\ coach' = [op |-> "scaled", cur |-> coach.cur, target |-> coach.target,
               out |-> coach.out, arg |-> s,
               out2 |-> NormalizeLandmarks(Scaled(coach.cur, s))]
  /\ UNCHANGED hookVars

\* calculatePoseMatchScore(cur, target)
Score ==
  /\ coach.op = "input"
  /\ coach' = [op |-> "score", cur |-> coach.cur, target |-> coach.target,
               out |-> CalculatePoseMatchScore(coach.cur, coach.target)]
  /\ UNCHANGED hookVars

\* calculatePoseMatchScore(alt, target) where alt is cur with one key moved
Rescore(move) ==
  /\ coach.op = "score"
  /\ move.key \in DOMAIN coach.cur
  /\ ExactScore(Moved(coach.cur, move), coach.target)
  /\ coach' = [op |-> "rescore", cur |-> coach.cur, target |-> coach.target,
               out |-> coach.out, arg |-> move,
               out2 |-> CalculatePoseMatchScore(Moved(coach.cur, move), coach.target)]
  /\ UNCHANGED hookVars

\* the keypoints that are not in REQUIRED_SCORE_KEYS
OtherKeys ==
  { "leftEye", "rightEye", "leftEar", "rightEar", "leftKnee", "rightKnee",
    "leftAnkle", "rightAnkle" }

\* changes of those keypoints only: removed from, moved in or added to the
\* current map, or moved in the target
Edits == {"drop", "move", "add", "target"}
EditedCur(cur, edit) ==
  CASE edit = "drop" -> [key \in DOMAIN cur \ OtherKeys |-> cur[key]]
    [] edit = "move" -> Moved(cur, Move("leftKnee", 30, 40))
    [] edit = "add" ->
         [key \in DOMAIN cur \cup OtherKeys |->
            IF key \in DOMAIN cur
              THEN cur[key]
              ELSE [x |-> Rat(9, 10), y |-> Rat(1, 10), z |-> Rat(3, 10), visibility |-> None]]
    [] edit = "target" -> cur
EditedTarget(target, edit) ==
  IF edit = "target" /\ target # None
    THEN Some([target[1] EXCEPT !.leftKnee = P(1, 99), !.rightEar = P(90, 3)])
    ELSE target

\* calculatePoseMatchScore after such a change
RescoreOther(edit) ==
  /\ coach.op = "score"
  /\ EditedCur(coach.cur, edit) # coach.cur \/ EditedTarget(coach.target, edit) # coach.target
  /\ coach' = [op |-> "rescoreOther", cur |-> coach.cur, target |-> coach.target,
               out |-> coach.out, arg |-> edit,
               alt |-> EditedCur(coach.cur, edit),
               altTarget |-> EditedTarget(coach.target, edit),
               out2 |-> CalculatePoseMatchScore(EditedCur(coach.cur, edit),
                                                EditedTarget(coach.target, edit))]
  /\ UNCHANGED hookVars

\* getPoseFeedback(score, cur), on the score just computed or on a given one
Feedback(score) ==
  /\ \/ coach.op = "input"
     \/ coach.op = "score" /\ score = coach.out
  /\ coach' = [op |-> "feedback", cur |-> coach.cur, target |-> coach.target,
               arg |-> score, scored |-> coach.op = "score",
               out |-> GetPoseFeedback(score, coach.cur)]
  /\ UNCHANGED hookVars

\* getFoxEmotion(score)
Emotion(score) ==
  /\ coach.op = "input"
  /\ coach' = [op |-> "emotion", cur |-> coach.cur, target |-> coach.target,
               arg |-> score, out |-> GetFoxEmotion(score)]
  /\ UNCHANGED hookVars

\* getFoxEmotion on the score getPoseFeedback was given
EmotionOfFeedback ==
  /\ coach.op = "feedback"
  /\ ~coach.scored
  /\ coach' = [op |-> "both", cur |-> coach.cur, target |-> coach.target,
               arg |-> coach.arg, out |-> coach.out, out2 |-> GetFoxEmotion(coach.arg)]
  /\ UNCHANGED hookVars

\* getFoxRigSignals of cur, as it is or scaled as a whole
RigSignals(s) ==
  /\ coach.op = "input"
  /\ coach' = [op |-> "rig", cur |-> coach.cur, target |-> coach.target,
               arg |-> s, out |-> GetFoxRigSignals(Scaled(coach.cur, s))]
  /\ UNCHANGED hookVars

\* getFoxRigSignals of cur with an elbow moved
ElbowMoves == { Move("leftElbow", 7, -40), Move("rightElbow", -300, 400) }
RigSignalsElbowMoved(move) ==
  /\ coach.op = "rig"
  /\ coach.arg = RInt(1)
  /\ move.key \in DOMAIN coach.cur
  /\ coach' = [op |-> "rigMoved", cur |-> coach.cur, target |-> coach.target,
               arg |-> move, out |-> coach.out, alt |-> Moved(coach.cur, move),
               out2 |-> GetFoxRigSignals(Moved(coach.cur, move))]
  /\ UNCHANGED hookVars

NextCoach ==
  \/ Normalize
  \/ \E offset \in Offsets : NormalizeTranslated(offset)
  \/ \E s \in Factors : NormalizeScaled(s)
  \/ Score
  \/ \E move \in Moves : Rescore(move)
  \/ \E edit \in Edits : RescoreOther(edit)
  \/ \E score \in Scores \cup (IF coach.op = "score" THEN {coach.out} ELSE {}) : Feedback(score)
  \/ \E score \in Scores : Emotion(score)
  \/ EmotionOfFeedback
  \/ \E s \in Factors \cup {RInt(1)} : RigSignals(s)
  \/ \E move \in ElbowMoves : RigSignalsElbowMoved(move)

SpecCoach == InitCoach /\ [][NextCoach]_vars

\* ------------------------------------------------------------- sanity
TypeOK ==
  /\ mounted \in {"init", "mounted", "unmounted"}
  /\ nsessions \in 0..MaxSessions
  /\ current \in 0..nsessions
  /\ \A s \in Sessions : pc[s] \in {"idle", "load", "create", "loop", "failed", "dropped"}
  /\ now \in 0..MaxTime
  /\ Len(fpsWindowRef) <= FpsWindowSize

\* ------------------------------------------------------------ vocabulary
\* the session was started and its cleanup has run
Stopped(s) == s <= nsessions /\ ~running[s]

\* the callback of a step called detectForVideo
Detected(tick) == tick \in {"threw", "nopose", "published", "silent"}

Abs(n) == IF n < 0 THEN -n ELSE n

Coordinates == {"x", "y", "z"}

\* ------------------------------------------------------------------ claims

\* C1: once a session is stopped and its acquisition has resolved, the
\* detector it was given is closed, and no tick callback of a stopped session
\* is pending.
C1_StopReleasesDetector ==
  \A s \in Sessions :
    Stopped(s) =>
      /\ (pc[s] \notin {"load", "create"} => handle[s] # "open")
      /\ \A cb \in rafQueue : cb.sess # s

\* C2: a stopped session never calls detectForVideo again, and when one of its
\* awaits resolves or rejects after the stop, the published state, the
\* smoothing state and the animation frame queue are left as they were.
C2_StoppedSessionIsInert ==
  [][\A s \in Sessions :
       Stopped(s) =>
         /\ ~(lastSess' = s /\ Detected(lastTick'))
         /\ detectCalls'[s] = detectCalls[s]
         /\ (pc'[s] # pc[s] =>
               UNCHANGED << state, smoothRef, fpsWindowRef, lastFrameTimeRef,
                            rafQueue, rafRef >>)]_vars

\* a session got its detector after its stop while the hook shows a later
\* session as ready
C2_Witness ==
  \E s \in Sessions :
    /\ Stopped(s)
    /\ pc[s] = "dropped"
    /\ handle[s] = "open"
    /\ state.ready
    /\ rafQueue # {}

\* C3: the first processed frame of a session publishes exactly its own
\* detection and leaves an FPS window that holds only that frame's sample.
C3_FirstFrameIsUnblended ==
  [][\A s \in Sessions :
       (detectCalls[s] = 0 /\ detectCalls'[s] = 1 /\ lastTick' = "published") =>
         /\ state'.landmarks = lastMapped'
         /\ fpsWindowRef' = << Frac(MsPerSecond, now' - lastFrameTimeRef) >>]_vars

\* C4: on a processed frame every keypoint of the previous map that the new
\* detection lacks stays in the published smoothed map with its previous value.
C4_AbsentKeypointHeld ==
  [][(lastTick' = "published" /\ smoothRef # None) =>
       \A key \in (DOMAIN smoothRef[1]) \ (DOMAIN lastMapped'[1]) :
         /\ key \in DOMAIN smoothRef'[1]
         /\ smoothRef'[1][key] = smoothRef[1][key]
         /\ state'.landmarks = smoothRef']_vars

\* C5: two detectForVideo calls are at least 16 ms apart by the clock read at
\* tick time, and a tick that comes less than 16 ms after the last call calls
\* nothing and leaves the last-frame time, the smoothing state and the
\* published state as they were.
C5_ThrottleDrops ==
  [][(lastTick' # "none" /\ lastDetectAt # None) =>
       /\ (Detected(lastTick') => now' - lastDetectAt[1] >= MinFrameMs)
       /\ (now' - lastDetectAt[1] < MinFrameMs =>
             /\ ~Detected(lastTick')
             /\ UNCHANGED << lastFrameTimeRef, smoothRef, fpsWindowRef, state,
                             detectCalls, lastDetectAt >>)]_vars

\* the third 5 ms tick after a frame: 15 ms, dropped
C5_Witness ==
  /\ lastTick = "dropped"
  /\ lastDetectAt # None
  /\ now - lastDetectAt[1] = MinFrameMs - 1
  /\ lastFrameTimeRef = lastDetectAt[1]

\* C6: when detection or remapping throws, the error is published, the
\* smoothing state and the published landmarks and fps keep their values, and
\* the next tick of the session is pending.
C6_FrameErrorKeepsLastGood ==
  [][lastTick' = "threw" =>
       /\ state'.error = Some(FrameErrorMsg)
       /\ UNCHANGED << smoothRef, fpsWindowRef >>
       /\ state'.landmarks = state.landmarks
       /\ state'.fps = state.fps
       /\ running'[lastSess']
       /\ \E cb \in rafQueue' : cb.sess = lastSess' /\ rafRef' = Some(cb.id)]_vars

\* a frame threw after an earlier frame had been published
C6_Witness ==
  /\ lastTick = "threw"
  /\ state.landmarks # None
  /\ state.landmarks = smoothRef
  /\ fpsWindowRef # << >>

\* C7: once a frame has been processed and published, the published error is
\* not the per-frame failure message.
C7_FrameErrorIsTransient ==
  [][lastTick' = "published" => state'.error # Some(FrameErrorMsg)]_vars

\* C8: a session whose acquisition failed while it was active published the
\* load error with ready false, stays failed, has no tick pending and never
\* calls detectForVideo.
C8_FailedAcquisitionEndsSession ==
  [][\A s \in Sessions :
       /\ (pc[s] # "failed" /\ pc'[s] = "failed") =>
            (state'.error = Some(LoadErrorMsg) /\ ~state'.ready)
       /\ pc[s] = "failed" =>
            /\ pc'[s] = "failed"
            /\ detectCalls'[s] = 0
            /\ \A cb \in rafQueue' : cb.sess # s
            /\ (running'[s] => (state'.error = Some(LoadErrorMsg) /\ ~state'.ready))]_vars

\* the restart of a session that had tracked failed to load
C8_Witness ==
  \E s \in Sessions :
    /\ pc[s] = "failed"
    /\ running[s]
    /\ s > 1
    /\ smoothRef # None
    /\ ~state.ready

\* C9: at most one tick callback is pending, it belongs to the running
\* session and rafRef names it; a step calls detectForVideo at most once, and
\* after a processed frame the only pending callback is the one that frame
\* scheduled at its end.
C9_OneTickPending ==
  [][/\ Cardinality(rafQueue') <= 1
     /\ \A cb \in rafQueue' : running'[cb.sess] /\ rafRef' = Some(cb.id)
     /\ \A s \in Sessions : detectCalls'[s] - detectCalls[s] \in {0, 1}
     /\ Cardinality({ s \in Sessions : detectCalls'[s] # detectCalls[s] }) <= 1
     /\ (Detected(lastTick') =>
           /\ rafQueue' = { [id |-> rafRef'[1], sess |-> lastSess'] }
           /\ rafQueue = { cb \in rafQueue : cb.sess = lastSess' }
           /\ rafQueue' # rafQueue)]_vars

\* the second session processed a frame and waits for its next tick
C9_Witness ==
  /\ Detected(lastTick)
  /\ lastSess > 1
  /\ Cardinality(rafQueue) = 1
  /\ \E s \in Sessions : s < lastSess /\ detectCalls[s] > 0

\* C10: a keypoint new to the smoothed map is published with its raw value;
\* otherwise every coordinate becomes previous + (current - previous) * alpha,
\* which is no farther from the raw value than before and not beyond it.
C10_SmoothingConverges ==
  [][lastTick' = "published" =>
       /\ state'.landmarks = smoothRef'
       /\ DOMAIN smoothRef'[1] = DOMAIN lastMapped'[1]
       /\ \A key \in DOMAIN lastMapped'[1] :
            LET cur == lastMapped'[1][key]
                new == smoothRef'[1][key]
            IN  IF smoothRef = None \/ key \notin DOMAIN smoothRef[1]
                  THEN \A c \in Coordinates : new[c] = cur[c]
                  ELSE LET prev == smoothRef[1][key]
                       IN  \A c \in Coordinates :
                             /\ AlphaDen * (new[c] - prev[c]) = (cur[c] - prev[c]) * smoothing
                             /\ Abs(new[c] - cur[c]) <= Abs(prev[c] - cur[c])
                             /\ (prev[c] <= cur[c] => new[c] <= cur[c])
                             /\ (prev[c] >= cur[c] => new[c] >= cur[c])]_vars

\* the nose went from x = 0 towards a raw x = 1 held for two frames at
\* alpha = 0.35: 0, 0.35, 0.5775
C10_Witness ==
  /\ lastTick = "published"
  /\ smoothing = DefaultSmoothing
  /\ lastMapped = Some(Remap(<< PointB >>))
  /\ smoothRef # None
  /\ "nose" \in DOMAIN smoothRef[1]
  /\ smoothRef[1]["nose"].x * 10000 = Unit * 5775
  /\ smoothRef[1]["nose"].x < Unit

\* C11: the FPS window never holds more than 20 samples; a published frame
\* appends 1000/elapsed and, when the window is full, drops the oldest sample;
\* no other step changes the window; the published fps times the number of
\* samples is the sum of the samples in the window.
C11_FpsWindowAndMean ==
  [][/\ Len(fpsWindowRef') <= FpsWindowSize
     /\ (fpsWindowRef' # << >> =>
           LET sum == SumFps(fpsWindowRef')
           IN  state'.fps.n * Len(fpsWindowRef') * sum.d = sum.n * state'.fps.d)
     /\ IF lastTick' = "published"
          THEN \E sample \in { Frac(MsPerSecond, now' - lastFrameTimeRef) } :
                 /\ sample.n * (now' - lastFrameTimeRef) = MsPerSecond * sample.d
                 /\ fpsWindowRef' =
                      IF Len(fpsWindowRef) < FpsWindowSize
                        THEN Append(fpsWindowRef, sample)
                        ELSE Append(Tail(fpsWindowRef), sample)
          ELSE fpsWindowRef' = fpsWindowRef]_vars

\* mounted at 95 ms, 21 frames published from 100 ms to 500 ms: the first
\* sample (10 fps) has left the window and the mean is 50 fps
C11_Witness ==
  /\ Len(fpsWindowRef) = FpsWindowSize
  /\ lastTick = "published"
  /\ state.error = None
  /\ detectCalls[1] = FpsWindowSize + 1
  /\ now = 500
  /\ lastFrameTimeRef = now
  /\ state.fps = Frac(MsPerSecond, 20)

\* C12: normalizeLandmarks is translation-invariant: for a landmark map with
\* all four torso points, adding one offset (dx, dy) to the x and y of every
\* landmark leaves the normalised map unchanged.
C12_TranslationInvariant ==
  (coach.op = "translated" /\ TorsoKeys \subseteq DOMAIN coach.cur) =>
    /\ coach.out = NormalizeLandmarks(coach.cur)
    /\ coach.out2 = coach.out

C12_Witness ==
  /\ coach.op = "translated"
  /\ DOMAIN coach.cur = PoseKeypointNames
  /\ coach.arg = << Rat(-1, 4), Rat(1, 3) >>
  /\ coach.cur["leftShoulder"].x = Rat(65, 100)
  /\ coach.out2["leftShoulder"] = [x |-> Rat(15, 34), y |-> Rat(-25, 68), z |-> RInt(0),
                                   visibility |-> Some(Rat(1, 2))]

\* C13 as stated: normalizeLandmarks is scale-invariant: for every landmark
\* map with all four torso points and every factor s > 0 multiplying all
\* coordinates of all landmarks, the normalised map is unchanged.
C13_ScaleInvariantAlways ==
  (coach.op = "scaled" /\ TorsoKeys \subseteq DOMAIN coach.cur) =>
    coach.out2 = coach.out

\* the scale of line 97 is not floored
AboveFloor(landmarks) == RLe(MinPoseScale, RawPoseScale(landmarks))

\* C13: normalizeLandmarks is scale-invariant for every landmark map with all
\* four torso points whose scale 0.5 shoulderWidth + 0.2 hipWidth +
\* 0.6 torsoHeight is at least 0.0001 before and after the scaling: every
\* factor s > 0 multiplying all coordinates leaves the normalised map
\* unchanged.
C13_ScaleInvariantAboveFloor ==
  (/\ coach.op = "scaled"
   /\ TorsoKeys \subseteq DOMAIN coach.cur
   /\ AboveFloor(coach.cur)
   /\ AboveFloor(Scaled(coach.cur, coach.arg))) =>
    /\ coach.out = NormalizeLandmarks(coach.cur)
    /\ coach.out2 = coach.out

C13_Witness ==
  /\ coach.op = "scaled"
  /\ DOMAIN coach.cur = PoseKeypointNames
  /\ coach.arg = RInt(1000)
  /\ coach.cur["leftShoulder"].x = Rat(65, 100)
  /\ AboveFloor(coach.cur)
  /\ coach.out2["leftShoulder"] = [x |-> Rat(15, 34), y |-> Rat(-25, 68), z |-> RInt(0),
                                   visibility |-> None]

\* per required key scored: the distance between the normalised poses and
\* the visibility weight of the current pose
KeyDistances(cur, target) ==
  LET a == NormalizeLandmarks(cur)
      b == NormalizeLandmarks(SkeletonToLandmarks(target[1]))
  IN  [i \in ScoredKeys(a, b) |->
         Hypot(RSub(a[REQUIRED_SCORE_KEYS[i]].x, b[REQUIRED_SCORE_KEYS[i]].x),
               RSub(a[REQUIRED_SCORE_KEYS[i]].y, b[REQUIRED_SCORE_KEYS[i]].y))]
KeyWeights(cur, target) ==
  [i \in DOMAIN KeyDistances(cur, target) |-> VisibilityWeight(cur, REQUIRED_SCORE_KEYS[i])]

\* the sum of f over its domain, a subset of the indices of REQUIRED_SCORE_KEYS
RSum(f) ==
  LET upTo[k \in 0..Len(REQUIRED_SCORE_KEYS)] ==
        IF k = 0 THEN RInt(0)
        ELSE IF k \in DOMAIN f THEN RAdd(upTo[k - 1], f[k])
        ELSE upTo[k - 1]
  IN  upTo[Len(REQUIRED_SCORE_KEYS)]
TotalWeight(cur, target) == RSum(KeyWeights(cur, target))
WeightedMeanDistance(cur, target) ==
  LET distances == KeyDistances(cur, target)
      weights == KeyWeights(cur, target)
  IN  RDiv(RSum([i \in DOMAIN distances |-> RMul(distances[i], weights[i])]),
           TotalWeight(cur, target))
Scorable(cur, target) == target # None /\ TotalWeight(cur, target).n # 0

\* C14: calculatePoseMatchScore returns a value in [0,1] for every current
\* landmark map and every target; where a weighted mean distance exists the
\* score is clamp(1 - weightedMeanDistance / 1.25, 0, 1).
C14_ScoreBounded ==
  coach.op = "score" =>
    /\ RLe(RInt(0), coach.out)
    /\ RLe(coach.out, RInt(1))
    /\ Scorable(coach.cur, coach.target) =>
         LET raw == RSub(RInt(1), RDiv(WeightedMeanDistance(coach.cur, coach.target), Rat(5, 4)))
         IN  coach.out = IF RLt(raw, RInt(0)) THEN RInt(0)
                         ELSE IF RLt(RInt(1), raw) THEN RInt(1) ELSE raw

C14_Witness ==
  /\ coach.op = "score"
  /\ Scorable(coach.cur, coach.target)
  /\ RLt(Rat(5, 4), WeightedMeanDistance(coach.cur, coach.target))
  /\ \E i \in DOMAIN KeyWeights(coach.cur, coach.target) :
       KeyWeights(coach.cur, coach.target)[i] = Rat(3, 8)
  /\ coach.out = RInt(0)

\* C15: calculatePoseMatchScore with target = null returns 0 for every
\* current landmark map.
C15_NullTargetScoresZero ==
  (coach.op = "score" /\ coach.target = None) => coach.out = RInt(0)

C15_Witness ==
  /\ coach.op = "score"
  /\ coach.target = None
  /\ coach.cur = BuildMap("initial", "all", "one", Move("nose", 0, 0))
  /\ CalculatePoseMatchScore(coach.cur, Some(initialPose)) = RInt(1)
  /\ coach.out = RInt(0)

\* the raw landmark map is the target Skeleton converted from 0..100 to 0..1
\* and every visibility is 1
MatchesTarget(cur, target) ==
  /\ target # None
  /\ DOMAIN cur = DOMAIN target[1]
  /\ \A key \in DOMAIN cur :
       /\ cur[key].x = Rat(target[1][key].x, 100)
       /\ cur[key].y = Rat(target[1][key].y, 100)
       /\ cur[key].visibility = Some(RInt(1))

\* C16: when the raw landmark map equals the target Skeleton after the 0..100
\* to 0..1 conversion and every visibility is 1, calculatePoseMatchScore
\* returns at least 0.99 and getPoseFeedback on that score and map returns
\* the 'Perfect match' message.
C16_ExactMatchIsPerfect ==
  MatchesTarget(coach.cur, coach.target) =>
    /\ coach.op = "score" => RLe(Rat(99, 100), coach.out)
    /\ (coach.op = "feedback" /\ coach.scored) =>
         /\ RLe(Rat(99, 100), coach.arg)
         /\ coach.out = "Perfect match. Fox is celebrating!"

C16_Witness ==
  /\ MatchesTarget(coach.cur, coach.target)
  /\ coach.target = Some(perfectPose)
  /\ coach.op = "feedback"
  /\ coach.scored
  /\ coach.arg = CalculatePoseMatchScore(coach.cur, coach.target)
  /\ coach.out = "Perfect match. Fox is celebrating!"

\* between two current poses scored against one target, given by the
\* distances and weights of their priority keys: the weights and the
\* distances of all keys but k are the same and the distance of k did not
\* decrease
OnlyFarther(dcur, wcur, dalt, walt, k) ==
  /\ walt = wcur
  /\ DOMAIN dalt = DOMAIN dcur
  /\ k \in DOMAIN dcur
  /\ \A i \in DOMAIN dcur \ {k} : dalt[i] = dcur[i]
  /\ RLe(dcur[k], dalt[k])

\* C17: the scorer is monotonic: with the weights and the normalised
\* distances of all other priority keys fixed, increasing the normalised
\* distance of one priority keypoint to its target never increases the score.
C17_ScoreMonotonic ==
  (coach.op = "rescore" /\ coach.target # None) =>
    LET dcur == KeyDistances(coach.cur, coach.target)
        wcur == KeyWeights(coach.cur, coach.target)
        dalt == KeyDistances(Moved(coach.cur, coach.arg), coach.target)
        walt == KeyWeights(Moved(coach.cur, coach.arg), coach.target)
    IN  \A k \in DOMAIN REQUIRED_SCORE_KEYS :
          OnlyFarther(dcur, wcur, dalt, walt, k) => RLe(coach.out2, coach.out)

C17_Witness ==
  /\ coach.op = "rescore"
  /\ coach.target # None
  /\ LET dcur == KeyDistances(coach.cur, coach.target)
         wcur == KeyWeights(coach.cur, coach.target)
         dalt == KeyDistances(Moved(coach.cur, coach.arg), coach.target)
         walt == KeyWeights(Moved(coach.cur, coach.arg), coach.target)
     IN  \E k \in DOMAIN REQUIRED_SCORE_KEYS :
           /\ OnlyFarther(dcur, wcur, dalt, walt, k)
           /\ RLt(RInt(0), dcur[k])
           /\ RLt(dcur[k], dalt[k])
           /\ wcur[k] = Rat(3, 8)
  /\ RLt(coach.out2, coach.out)
  /\ RLt(RInt(0), coach.out2)

\* the classification of the scores the specification lists
EmotionTable ==
  { << RInt(0), "confused" >>, << Rat(4, 10), "confused" >>,
    << Rat(41, 100), "focused" >>, << Rat(7, 10), "focused" >>,
    << Rat(71, 100), "happy" >>, << Rat(9, 10), "happy" >>,
    << Rat(91, 100), "celebrate" >>, << RInt(1), "celebrate" >> }

\* C18: getFoxEmotion is total with inclusive upper thresholds 0.4, 0.7, 0.9:
\* score <= 0.4 gives confused, else <= 0.7 focused, else <= 0.9 happy, else
\* celebrate; so 0.0, 0.4, 0.41, 0.7, 0.71, 0.9, 0.91, 1.0 give confused,
\* confused, focused, focused, happy, happy, celebrate, celebrate.
C18_EmotionThresholdsInclusive ==
  coach.op = "emotion" =>
    /\ coach.out = IF 10 * coach.arg.n <= 4 * coach.arg.d THEN "confused"
                   ELSE IF 10 * coach.arg.n <= 7 * coach.arg.d THEN "focused"
                   ELSE IF 10 * coach.arg.n <= 9 * coach.arg.d THEN "happy"
                   ELSE "celebrate"
    /\ \A row \in EmotionTable : coach.arg = row[1] => coach.out = row[2]

C18_Witness ==
  /\ coach.op = "emotion"
  /\ coach.arg = Rat(7, 10)
  /\ coach.out = "focused"

\* the priority keys that do not count as visible: a visibility is given and
\* it is not above 0.45
HiddenKeys(landmarks) ==
  { i \in DOMAIN REQUIRED_SCORE_KEYS :
      /\ REQUIRED_SCORE_KEYS[i] \in DOMAIN landmarks
      /\ landmarks[REQUIRED_SCORE_KEYS[i]].visibility # None
      /\ 100 * landmarks[REQUIRED_SCORE_KEYS[i]].visibility[1].n
           <= 45 * landmarks[REQUIRED_SCORE_KEYS[i]].visibility[1].d }
CountedVisible(landmarks) == Len(REQUIRED_SCORE_KEYS) - Cardinality(HiddenKeys(landmarks))

\* C19: the visibility gate of getPoseFeedback overrides the score: for every
\* score, if fewer than 6 of the 9 priority keys count as visible (no
\* visibility field, or visibility > 0.45) the result is the reposition
\* message; with 6 or more it is never the reposition message.
C19_VisibilityGateOverridesScore ==
  coach.op = "feedback" =>
    (CountedVisible(coach.cur) < 6
       <=> coach.out = "Step back so your full upper body is visible.")

C19_Witness ==
  /\ coach.op = "feedback"
  /\ coach.arg = Rat(99, 100)
  /\ CountedVisible(coach.cur) = 5
  /\ coach.out = "Step back so your full upper body is visible."

RigSignalNames == {"headTilt", "leftArmLift", "rightArmLift", "bodyLean", "balanceShift"}

SharedKeys(cur, target) ==
  { i \in DOMAIN REQUIRED_SCORE_KEYS :
      REQUIRED_SCORE_KEYS[i] \in DOMAIN cur /\ REQUIRED_SCORE_KEYS[i] \in DOMAIN target[1] }

\* the raw visibility of the key is given and is at most 0.2
AtMostFifth(cur, key) ==
  /\ cur[key].visibility # None
  /\ 10 * cur[key].visibility[1].n <= 2 * cur[key].visibility[1].d

\* the weight of a key: 1 without a visibility, else (v - 0.2) / 0.8 held
\* within [0, 1]
ExpectedWeight(cur, key) ==
  IF cur[key].visibility = None
    THEN RInt(1)
    ELSE LET v == cur[key].visibility[1]
             w == Rat(10 * v.n - 2 * v.d, 8 * v.d)
         IN  IF w.n < 0 THEN RInt(0) ELSE IF w.n > w.d THEN RInt(1) ELSE w

\* C21: the weight of a key is 1 when its raw visibility is absent, else
\* clamp((visibility - 0.2) / 0.8, 0, 1); when no priority key is in both
\* maps, or every such key has raw visibility <= 0.2 in the current map, the
\* score is 0.
C21_ZeroWeightScoresZero ==
  (coach.op = "score" /\ coach.target # None) =>
    /\ \A i \in SharedKeys(coach.cur, coach.target) :
         VisibilityWeight(coach.cur, REQUIRED_SCORE_KEYS[i])
           = ExpectedWeight(coach.cur, REQUIRED_SCORE_KEYS[i])
    /\ (\A i \in SharedKeys(coach.cur, coach.target) :
          AtMostFifth(coach.cur, REQUIRED_SCORE_KEYS[i])) => coach.out = RInt(0)

C21_Witness ==
  /\ coach.op = "score"
  /\ coach.target # None
  /\ Cardinality(SharedKeys(coach.cur, coach.target)) = 9
  /\ \A i \in SharedKeys(coach.cur, coach.target) :
       AtMostFifth(coach.cur, REQUIRED_SCORE_KEYS[i])
  /\ coach.out = RInt(0)

\* the sum of coordinate c over the torso points the map has
PresentTorsoSum(landmarks, c) ==
  LET torso == << "leftShoulder", "rightShoulder", "leftHip", "rightHip" >>
      upTo[k \in 0..4] ==
        IF k = 0 THEN RInt(0)
        ELSE IF torso[k] \in DOMAIN landmarks THEN RAdd(upTo[k - 1], landmarks[torso[k]][c])
        ELSE upTo[k - 1]
  IN  upTo[4]

\* C22: when any of the four torso landmarks is absent, normalizeLandmarks
\* uses scale 1 and a centre equal to the sum of the present torso coordinates
\* divided by 4: every present landmark maps to (x - center.x, y - center.y, z)
\* with visibility unchanged, and the output has exactly the input's keys.
C22_MissingTorsoIsShiftOnly ==
  (coach.op = "normalize" /\ ~(TorsoKeys \subseteq DOMAIN coach.cur)) =>
    /\ DOMAIN coach.out = DOMAIN coach.cur
    /\ \A key \in DOMAIN coach.cur :
         coach.out[key] =
           [x |-> RSub(coach.cur[key].x, RDiv(PresentTorsoSum(coach.cur, "x"), RInt(4))),
            y |-> RSub(coach.cur[key].y, RDiv(PresentTorsoSum(coach.cur, "y"), RInt(4))),
            z |-> coach.cur[key].z,
            visibility |-> coach.cur[key].visibility]

C22_Witness ==
  /\ coach.op = "normalize"
  /\ DOMAIN coach.cur = PoseKeypointNames \ {"rightHip"}
  /\ coach.cur["nose"] = [x |-> Rat(1, 2), y |-> Rat(1, 4), z |-> RInt(0),
                          visibility |-> Some(Rat(1, 2))]
  /\ coach.cur["leftShoulder"].x = Rat(65, 100)
  /\ coach.out["nose"] = [x |-> Rat(1, 10), y |-> Rat(-3, 40), z |-> RInt(0),
                          visibility |-> Some(Rat(1, 2))]

\* two maps of points agree on every keypoint that is not a knee, an ankle,
\* an eye or an ear
SameBut(KneeAnkleEyeEar, m1, m2) ==
  /\ DOMAIN m1 \ KneeAnkleEyeEar = DOMAIN m2 \ KneeAnkleEyeEar
  /\ \A key \in DOMAIN m1 \ KneeAnkleEyeEar : m1[key] = m2[key]

\* C23: the score depends only on the 9 priority keys: changing, adding or
\* removing a knee, ankle, eye or ear landmark in the current map, or
\* changing those points in the target, leaves calculatePoseMatchScore
\* unchanged.
C23_ScoreIgnoresOtherKeys ==
  LET others == { "leftEye", "rightEye", "leftEar", "rightEar", "leftKnee", "rightKnee",
                  "leftAnkle", "rightAnkle" }
  IN  (/\ coach.op = "rescoreOther"
       /\ SameBut(others, coach.cur, coach.alt)
       /\ (coach.target = None) = (coach.altTarget = None)
       /\ coach.target # None => SameBut(others, coach.target[1], coach.altTarget[1])) =>
        coach.out2 = coach.out

C23_Witness ==
  /\ coach.op = "rescoreOther"
  /\ coach.arg = "move"
  /\ coach.target # None
  /\ coach.alt["leftKnee"] # coach.cur["leftKnee"]
  /\ RLt(RInt(0), coach.out)
  /\ RLt(coach.out, RInt(1))
  /\ coach.out2 = coach.out

\* -2 times the normalised x of the nose, held within [-1, 1]; 0 without a nose
NoseTilt(landmarks) ==
  IF "nose" \notin DOMAIN landmarks
    THEN RInt(0)
    ELSE LET t == RMul(NormalizeLandmarks(landmarks)["nose"].x, RInt(-2))
         IN  IF t.n < -t.d THEN RInt(-1) ELSE IF t.n > t.d THEN RInt(1) ELSE t

\* C24: in getFoxRigSignals a term whose landmark is missing contributes 0:
\* an arm lift is 0 unless that side's shoulder, elbow and wrist are all
\* present, bodyLean and the shoulder-slope part of headTilt are 0 unless both
\* shoulders are present, balanceShift is 0 unless both hips are present, and
\* the empty map gives all five signals 0.
C24_MissingLandmarkContributesZero ==
  coach.op = "rig" =>
    LET keys == DOMAIN coach.cur
    IN  /\ ~({"leftShoulder", "leftElbow", "leftWrist"} \subseteq keys) =>
             coach.out.leftArmLift = RInt(0)
        /\ ~({"rightShoulder", "rightElbow", "rightWrist"} \subseteq keys) =>
             coach.out.rightArmLift = RInt(0)
        /\ ~({"leftShoulder", "rightShoulder"} \subseteq keys) =>
             /\ coach.out.bodyLean = RInt(0)
             /\ coach.out.headTilt = NoseTilt(Scaled(coach.cur, coach.arg))
        /\ ~({"leftHip", "rightHip"} \subseteq keys) => coach.out.balanceShift = RInt(0)
        /\ keys = {} =>
             coach.out = [headTilt |-> RInt(0), leftArmLift |-> RInt(0),
                          rightArmLift |-> RInt(0), bodyLean |-> RInt(0),
                          balanceShift |-> RInt(0)]

C24_Witness ==
  /\ coach.op = "rig"
  /\ DOMAIN coach.cur = PoseKeypointNames \ {"leftShoulder"}
  /\ coach.arg = RInt(1)
  /\ coach.out.leftArmLift = RInt(0)
  /\ coach.out.bodyLean = RInt(0)
  /\ coach.out.rightArmLift # RInt(0)
  /\ coach.out.balanceShift # RInt(0)
  /\ coach.out.headTilt # RInt(0)

\* C25: whenever the published ready flag is true, the current session has
\* acquired a detector that has not been closed; ready is false while a
\* restarted session is still initializing.
C25_ReadyMeansDetectorHeld ==
  state.ready =>
    /\ current # 0
    /\ poseLandmarker[current]
    /\ handle[current] = "open"
    /\ pc[current] \notin {"load", "create"}

\* C27: visibility is not smoothed or refreshed: for a keypoint present in
\* every detection of a session, the published visibility equals the
\* visibility of the session's first detection that contained the keypoint;
\* frame by frame: a session's first detection publishes its own
\* visibilities, and a later detection publishes for every keypoint the
\* smoothed map already had the visibility it had there.
C27_VisibilityIsFirstSeen ==
  [][lastTick' = "published" =>
       \A key \in DOMAIN lastMapped'[1] :
         IF detectCalls[lastSess'] = 0
           THEN state'.landmarks[1][key].visibility = lastMapped'[1][key].visibility
           ELSE (smoothRef # None /\ key \in DOMAIN smoothRef[1]) =>
                  state'.landmarks[1][key].visibility = smoothRef[1][key].visibility]_vars

\* the four tiers of the composer and of the classifier, lowest first
FeedbackTiers ==
  << "Fox is playful. Match shoulder and elbow angles first.",
     "Fox is focusing. Small arm and torso adjustments needed.",
     "Nice pose. Hold steady and refine your balance.",
     "Perfect match. Fox is celebrating!" >>
EmotionTiers == << "confused", "focused", "happy", "celebrate" >>
TierOf(tiers, name) == CHOOSE t \in 1..4 : tiers[t] = name

\* C26: with the visibility gate passed, the feedback tier of getPoseFeedback
\* and the state of getFoxEmotion agree for every score except exactly at
\* 0.4, 0.7 and 0.9, where the composer selects the next higher tier and the
\* classifier the lower state.
C26_TiersAgreeOffThresholds ==
  (coach.op = "both" /\ coach.out # "Step back so your full upper body is visible.") =>
    /\ \E t \in 1..4 : FeedbackTiers[t] = coach.out
    /\ \E t \in 1..4 : EmotionTiers[t] = coach.out2
    /\ TierOf(FeedbackTiers, coach.out) =
         IF coach.arg \in { Rat(4, 10), Rat(7, 10), Rat(9, 10) }
           THEN TierOf(EmotionTiers, coach.out2) + 1
           ELSE TierOf(EmotionTiers, coach.out2)

C26_Witness ==
  /\ coach.op = "both"
  /\ coach.arg = Rat(7, 10)
  /\ coach.out = "Nice pose. Hold steady and refine your balance."
  /\ coach.out2 = "focused"

\* every priority key the map has is without a visibility or above 0.45
PresentKeysVisible(landmarks) ==
  \A i \in DOMAIN REQUIRED_SCORE_KEYS :
    REQUIRED_SCORE_KEYS[i] \in DOMAIN landmarks =>
      \/ landmarks[REQUIRED_SCORE_KEYS[i]].visibility = None
      \/ 100 * landmarks[REQUIRED_SCORE_KEYS[i]].visibility[1].n
           > 45 * landmarks[REQUIRED_SCORE_KEYS[i]].visibility[1].d

\* the priority keys the map has no landmark for
MissingKeys(landmarks) ==
  { i \in DOMAIN REQUIRED_SCORE_KEYS : REQUIRED_SCORE_KEYS[i] \notin DOMAIN landmarks }

\* C28: getPoseFeedback counts a priority key that has no landmark at all as
\* visible: for the empty map and any map missing priority keys whose
\* remaining keys have visibility > 0.45 or none, the reposition message is
\* not returned and the score tier decides the message.
C28_MissingLandmarkCountsVisible ==
  (coach.op = "feedback" /\ PresentKeysVisible(coach.cur)) =>
    coach.out = IF 10 * coach.arg.n < 4 * coach.arg.d
                  THEN "Fox is playful. Match shoulder and elbow angles first."
                ELSE IF 10 * coach.arg.n < 7 * coach.arg.d
                  THEN "Fox is focusing. Small arm and torso adjustments needed."
                ELSE IF 10 * coach.arg.n < 9 * coach.arg.d
                  THEN "Nice pose. Hold steady and refine your balance."
                ELSE "Perfect match. Fox is celebrating!"

C28_Witness ==
  /\ coach.op = "feedback"
  /\ DOMAIN coach.cur = {"nose"}
  /\ coach.cur["nose"].visibility = Some(Rat(1, 2))
  /\ Cardinality(MissingKeys(coach.cur)) = 8
  /\ coach.arg = Rat(39, 100)
  /\ coach.out = "Fox is playful. Match shoulder and elbow angles first."

\* C29: when the detector returns no pose for a processed frame, the
\* smoothing state, the FPS window and the published landmarks, fps and error
\* are unchanged, the last-frame time is advanced to this tick, and the next
\* tick is scheduled.
C29_NoPoseFrameChangesNothing ==
  [][lastTick' = "nopose" =>
       /\ smoothRef' = smoothRef
       /\ fpsWindowRef' = fpsWindowRef
       /\ state' = state
       /\ lastFrameTimeRef' = now'
       /\ lastFrameTimeRef' > lastFrameTimeRef
       /\ rafRef' # None
       /\ \E cb \in rafQueue' : cb.id = rafRef'[1] /\ cb.sess = lastSess'
       /\ Cardinality(rafQueue') = Cardinality(rafQueue)]_vars

C29_Witness ==
  /\ lastTick = "nopose"
  /\ state.landmarks # None
  /\ smoothRef = state.landmarks
  /\ state.error # None
  /\ fpsWindowRef # << >>
  /\ lastFrameTimeRef = now
  /\ rafRef # None
  /\ \E cb \in rafQueue : cb.id = rafRef[1] /\ cb.sess = lastSess

\* 1.8 (shoulder.y - wrist.y) in normalised coordinates, held within [-1, 1]
LiftOf(landmarks, shoulder, wrist) ==
  LET n == NormalizeLandmarks(landmarks)
      lift == RMul(RSub(n[shoulder].y, n[wrist].y), Rat(9, 5))
  IN  IF lift.n < -lift.d THEN RInt(-1) ELSE IF lift.n > lift.d THEN RInt(1) ELSE lift

\* the two maps differ at most in their elbows
SameButElbows(m1, m2) ==
  /\ DOMAIN m1 = DOMAIN m2
  /\ \A key \in DOMAIN m1 \ {"leftElbow", "rightElbow"} : m1[key] = m2[key]

\* C30: leftArmLift and rightArmLift depend on the elbow only through its
\* presence: with shoulder, elbow and wrist present each equals
\* clamp(1.8 (shoulder.y - wrist.y)) in normalised coordinates, so moving the
\* elbow alone never changes the arm-lift signal.
C30_ArmLiftIgnoresElbowPosition ==
  LET hasLeft == {"leftShoulder", "leftElbow", "leftWrist"} \subseteq DOMAIN coach.cur
      hasRight == {"rightShoulder", "rightElbow", "rightWrist"} \subseteq DOMAIN coach.cur
  IN  /\ coach.op = "rig" =>
           /\ hasLeft => coach.out.leftArmLift
                           = LiftOf(Scaled(coach.cur, coach.arg), "leftShoulder", "leftWrist")
           /\ hasRight => coach.out.rightArmLift
                            = LiftOf(Scaled(coach.cur, coach.arg), "rightShoulder", "rightWrist")
      /\ (coach.op = "rigMoved" /\ SameButElbows(coach.cur, coach.alt)) =>
           /\ hasLeft => coach.out2.leftArmLift = coach.out.leftArmLift
           /\ hasRight => coach.out2.rightArmLift = coach.out.rightArmLift

C30_Witness ==
  /\ coach.op = "rigMoved"
  /\ SameButElbows(coach.cur, coach.alt)
  /\ {"leftShoulder", "leftElbow", "leftWrist"} \subseteq DOMAIN coach.cur
  /\ coach.alt["leftElbow"].y # coach.cur["leftElbow"].y
  /\ coach.out.leftArmLift = Rat(-9, 25)
  /\ coach.out2.leftArmLift = Rat(-9, 25)

====
